---- MODULE Spec2Model ----
(***************************************************************************)
(* A model of the MPU9250 driver (MPU9250.cpp): the driver object's        *)
(* fields, the device registers it writes, and its operations runTests,    *)
(* getMres, selfTest, readMagData, initAK8963 and calibrateMagnetometer.   *)
(*                                                                         *)
(* Numbers.  C float/double values are modelled in two ways:               *)
(*  - values the code obtains by a handful of exact operations on small    *)
(*    integers (_mRes, _magCalibration, _magScale) are exact rationals     *)
(*    <<numerator, denominator>> in lowest terms;                          *)
(*  - the factory trims and the percent deviations of selfTest are         *)
(*    fixed-point numbers, Unit steps to one, rounded the way the          *)
(*    operators below state.                                               *)
(* Integer values keep their C width and C's truncating division.          *)
(***************************************************************************)
EXTENDS Integers, Sequences, FiniteSets, TLC

VARIABLES
    mRes,            \* _mRes: rational
    mScale,          \* _mScale
    mMode,           \* _mMode
    passthru,        \* _passthru
    sampleRateDivisor, \* _sampleRateDivisor
    magCalibration,  \* _magCalibration[3]: rationals
    magBias,         \* _magBias[3]: rationals
    magScale,        \* _magScale[3]: rationals, or PosInf / NegInf / NaN
    aScale,          \* _aScale
    gScale,          \* _gScale
    regs,            \* the device's configuration registers (MPU9250 and AK8963)
    call,            \* the operation that ran last, and what it returned
    steps,           \* runTests: the steps the last call performed
    busLog,          \* bus operations and delays of the last call, in order
    st,              \* selfTest: locals of the last call (see SelfTestBody)
    destination,     \* readMagData: the caller's buffer
    rd,              \* readMagData: the buffer before the last call, and the bytes read
    mresCalls,       \* getMres: every (argument, result) pair returned so far
    cal,             \* calibrateMagnetometer: its locals and position; nReads and
                     \* nDelays count its readMagData and delay calls, delays
                     \* holds the durations, seen the values mag_temp took,
                     \* reported the values of the samples without overflow
    app              \* the example application: gotNewData, the position of
                     \* loop(), and what the flag held when the cycle began

vars == << mRes, mScale, mMode, passthru, sampleRateDivisor, magCalibration,
           magBias, magScale, aScale, gScale, regs, call, steps, busLog, st,
           destination, rd, mresCalls, cal, app >>

-----------------------------------------------------------------------------
(* Enumerations and register values *)

MFS_14BITS == 0
MFS_16BITS == 1
M_8Hz == 2
M_100Hz == 6
I2C_MST_EN == 32

Mscales == {MFS_14BITS, MFS_16BITS}
Mmodes == {M_8Hz, M_100Hz}

ERROR_NONE == "ERROR_NONE"
ERROR_IMU_ID == "ERROR_IMU_ID"
ERROR_SELFTEST == "ERROR_SELFTEST"
ERROR_MAG_ID == "ERROR_MAG_ID"

\* the MPU9250 registers the driver writes, and the AK8963's CNTL
MpuRegs == {"SMPLRT_DIV", "CONFIG", "GYRO_CONFIG", "ACCEL_CONFIG",
            "ACCEL_CONFIG2", "PWR_MGMT_1", "USER_CTRL", "INT_PIN_CFG",
            "INT_ENABLE"}
RegNames == MpuRegs \cup {"AK8963_CNTL"}

-----------------------------------------------------------------------------
(* Arithmetic *)

Abs(x) == IF x < 0 THEN -x ELSE x

\* C's integer division: the quotient truncated toward zero
TruncDiv(a, b) == IF (a >= 0) = (b > 0) THEN Abs(a) \div Abs(b)
                                        ELSE -(Abs(a) \div Abs(b))

RECURSIVE Gcd(_, _)
Gcd(a, b) == IF b = 0 THEN a ELSE Gcd(b, a % b)

\* the rational n/d (d # 0) in lowest terms with a positive denominator
Rat(n, d) ==
    LET g == Gcd(Abs(n), Abs(d))
        s == IF d < 0 THEN -1 ELSE 1
    IN  << s * (n \div g), s * (d \div g) >>

RatMul(x, y) == Rat(x[1] * y[1], x[2] * y[2])

\* (int16_t) of a 16-bit pattern
ToInt16(u) == IF u >= 32768 THEN u - 65536 ELSE u

\* ((int16_t)hi << 8) | lo
Int16Of(hi, lo) == ToInt16(hi * 256 + lo)

\* the two bytes of a signed 16-bit value: <<high, low>>
BytesOf(v) == LET u == IF v < 0 THEN v + 65536 ELSE v
              IN  << u \div 256, u % 256 >>

BitAnd8(x, m) ==
    LET bit(k, y) == (y \div (2 ^ k)) % 2
        RECURSIVE go(_)
        go(k) == IF k < 0 THEN 0
                 ELSE go(k - 1) + (IF bit(k, x) = 1 /\ bit(k, m) = 1 THEN 2 ^ k ELSE 0)
    IN  go(7)

BitOr8(x, m) == x + m - BitAnd8(x, m)

-----------------------------------------------------------------------------
(* The bus: a log of operations, and their effect on the registers *)

WriteOp(reg, val) == << "w", reg, val >>
ReadOp(reg, n) == << "r", reg, n >>
DelayOp(ms) == << "delay", "", ms >>

\* writeMPURegister / writeAK8963Register: the register takes the value;
\* bit 7 of PWR_MGMT_1 resets the MPU9250's registers
WriteReg(r, reg, val) ==
    IF reg = "PWR_MGMT_1" /\ val >= 128
    THEN [x \in RegNames |-> IF x \in MpuRegs THEN 0 ELSE r[x]]
    ELSE [r EXCEPT ![reg] = val]

\* the registers after the operations ops[i..Len(ops)], in order
RECURSIVE ApplyOps(_, _, _)
ApplyOps(r, ops, i) ==
    IF i > Len(ops) THEN r
    ELSE ApplyOps(IF ops[i][1] = "w" THEN WriteReg(r, ops[i][2], ops[i][3]) ELSE r,
                  ops, i + 1)

-----------------------------------------------------------------------------
(* getMres *)

\* _mRes after getMres(mscale), cur being _mRes before: the cases assign it
GetMresField(mscale, cur) ==
    CASE mscale = MFS_14BITS -> Rat(10 * 4912, 8190)
      [] mscale = MFS_16BITS -> Rat(10 * 4912, 32760)
      [] OTHER -> cur

\* getMres returning _mRes as it was before the 16-bit case assigned it
GetMresRetStale(mscale, cur) ==
    IF mscale = MFS_14BITS THEN GetMresField(mscale, cur)
    ELSE IF mscale = MFS_16BITS THEN cur
    ELSE Rat(0, 1)

\* the value getMres(mscale) returns: in the cases, _mRes as just assigned
GetMresRet(mscale, cur) ==
    IF mscale \in {MFS_14BITS, MFS_16BITS} THEN GetMresField(mscale, cur)
    ELSE Rat(0, 1)

-----------------------------------------------------------------------------
(* readMagData *)

St2Overflow(c) == BitAnd8(c, 8) # 0

\* readMagData without the check of ST2
ReadMagDataUnchecked(dest, raw) ==
    << Int16Of(raw[2], raw[1]), Int16Of(raw[4], raw[3]), Int16Of(raw[6], raw[5]) >>

\* the buffer after readMagData(dest) read the seven bytes raw
ReadMagDataInto(dest, raw) ==
    IF ~St2Overflow(raw[7])
    THEN << Int16Of(raw[2], raw[1]), Int16Of(raw[4], raw[3]), Int16Of(raw[6], raw[5]) >>
    ELSE dest

ReadMagDataOps == << ReadOp("AK8963_XOUT_L", 7) >>

-----------------------------------------------------------------------------
(* initAK8963 *)

\* (float)(rawData - 128)/256.0f + 1.0f
AsaToCalibration(b) == Rat((b - 128) + 256, 256)

InitAK8963Calibration(asa) ==
    << AsaToCalibration(asa[1]), AsaToCalibration(asa[2]), AsaToCalibration(asa[3]) >>

InitAK8963Ops(mscale, Mmode) ==
    << WriteOp("AK8963_CNTL", 0), DelayOp(10),
       WriteOp("AK8963_CNTL", 15), DelayOp(10),
       ReadOp("AK8963_ASAX", 3),
       WriteOp("AK8963_CNTL", 0), DelayOp(10),
       WriteOp("AK8963_CNTL", BitOr8(mscale * 16, Mmode)), DelayOp(10) >>

-----------------------------------------------------------------------------
(* selfTest *)

\* fixed-point steps to one, for factoryTrim[] and tolerances[]
Unit == 1000

\* the number of readings averaged
NSamples == 200

\* uint8_t FS = 0
FS == 0

\* the tolerance of the check, in percent
MaxTolerance == 14

RoundDiv(a, b) == (2 * a + b) \div (2 * b)

\* x * 1.01^n, for n >= -1 and x >= 0: n multiplications by 1.01, one after
\* the other (the recursion halves n, and takes the first half's value before
\* it goes on, to keep the evaluation shallow)
RECURSIVE MulPow101(_, _)
MulPow101(x, n) ==
    IF n < 0 THEN RoundDiv(x * 100, 101)
    ELSE IF n = 0 THEN x
    ELSE IF n = 1 THEN x + RoundDiv(x, 100)
    ELSE LET y == MulPow101(x, n \div 2)
         IN  IF y >= 0 THEN MulPow101(y, n - (n \div 2)) ELSE y

\* the exponent taken as the self-test code itself
FactoryTrimOfCode(selfTestByte) ==
    MulPow101((TruncDiv(2620, 1) * (2 ^ FS)) * Unit, selfTestByte)

\* (float)(2620/1<<FS)*(pow(1.01, ((float)selfTest - 1.0))), in 1/Unit;
\* in C, 2620/1<<FS is (2620/1) << FS
FactoryTrimOf(selfTestByte) ==
    MulPow101((TruncDiv(2620, 1) * (2 ^ FS)) * Unit, selfTestByte - 1)

\* floor((q + r/b) * 10^k), for 0 <= r < b
RECURSIVE LongDiv(_, _, _, _)
LongDiv(q, r, b, k) ==
    IF k = 0 THEN q
    ELSE LongDiv(q * 10 + (r * 10) \div b, (r * 10) % b, b, k - 1)

\* 100.0f*((float)(diff))/factoryTrim - 100.0f, in 1/Unit; the quotient is
\* truncated toward zero at 1/Unit (100 * Unit * Unit = 10^8)
ToleranceOf(diff, ft) ==
    LET m == LongDiv(Abs(diff) \div ft, Abs(diff) % ft, ft, 8)
    IN  (IF diff < 0 THEN -m ELSE m) - 100 * Unit

\* a stream of NSamples readings of one axis: the first s.n are s.w, the
\* rest s.v; the device delivers each as two bytes, high byte first
StreamBytes(s, i) == BytesOf(IF i <= s.n THEN s.w ELSE s.v)

\* aAvg += (int16_t)(((int16_t)rawData[0] << 8) | rawData[1]), over the
\* readings lo..hi (the recursion halves the range to keep the evaluation shallow)
RECURSIVE Accumulate(_, _, _)
Accumulate(s, lo, hi) ==
    IF lo > hi THEN 0
    ELSE IF lo = hi THEN Int16Of(StreamBytes(s, lo)[1], StreamBytes(s, lo)[2])
    ELSE Accumulate(s, lo, (lo + hi) \div 2) + Accumulate(s, (lo + hi) \div 2 + 1, hi)

\* the mean rounded down instead of toward zero
AverageOfFloor(s) == Accumulate(s, 1, NSamples) \div NSamples

\* aAvg /= 200
AverageOf(s) == TruncDiv(Accumulate(s, 1, NSamples), NSamples)

\* a check of both sides of the band, as selfTest's comment describes it
SelfTestCheckBothSides(tolerances) ==
    \A k \in 1..6 : ~(Abs(tolerances[k]) >= MaxTolerance * Unit)

\* the check of the six tolerances
SelfTestCheck(tolerances) ==
    \A k \in 1..6 : ~(tolerances[k] >= MaxTolerance * Unit)

SampleLoopOps ==
    [i \in 1..(2 * NSamples) |->
        IF i % 2 = 1 THEN ReadOp("ACCEL_XOUT_H", 6) ELSE ReadOp("GYRO_XOUT_H", 6)]

\* selfTest without the writes that end the self-test
SelfTestOpsLeftEnabled ==
    << WriteOp("SMPLRT_DIV", 0), WriteOp("CONFIG", 2),
       WriteOp("GYRO_CONFIG", 2 ^ FS), WriteOp("ACCEL_CONFIG2", 2),
       WriteOp("ACCEL_CONFIG", 2 ^ FS) >>
    \o SampleLoopOps
    \o << WriteOp("ACCEL_CONFIG", 224), WriteOp("GYRO_CONFIG", 224), DelayOp(25) >>
    \o SampleLoopOps

\* selfTest enabling the self-test before it takes the baseline readings
SelfTestOpsEnabledFirst ==
    << WriteOp("SMPLRT_DIV", 0), WriteOp("CONFIG", 2),
       WriteOp("GYRO_CONFIG", 2 ^ FS), WriteOp("ACCEL_CONFIG2", 2),
       WriteOp("ACCEL_CONFIG", 2 ^ FS) >>
    \o << WriteOp("ACCEL_CONFIG", 224), WriteOp("GYRO_CONFIG", 224), DelayOp(25) >>
    \o SampleLoopOps
    \o SampleLoopOps
    \o << WriteOp("ACCEL_CONFIG", 0), WriteOp("GYRO_CONFIG", 0), DelayOp(25) >>
    \o << ReadOp("SELF_TEST_X_ACCEL", 1), ReadOp("SELF_TEST_Y_ACCEL", 1),
          ReadOp("SELF_TEST_Z_ACCEL", 1), ReadOp("SELF_TEST_X_GYRO", 1),
          ReadOp("SELF_TEST_Y_GYRO", 1), ReadOp("SELF_TEST_Z_GYRO", 1) >>

SelfTestOps ==
    << WriteOp("SMPLRT_DIV", 0), WriteOp("CONFIG", 2),
       WriteOp("GYRO_CONFIG", 2 ^ FS), WriteOp("ACCEL_CONFIG2", 2),
       WriteOp("ACCEL_CONFIG", 2 ^ FS) >>
    \o SampleLoopOps
    \o << WriteOp("ACCEL_CONFIG", 224), WriteOp("GYRO_CONFIG", 224), DelayOp(25) >>
    \o SampleLoopOps
    \o << WriteOp("ACCEL_CONFIG", 0), WriteOp("GYRO_CONFIG", 0), DelayOp(25) >>
    \o << ReadOp("SELF_TEST_X_ACCEL", 1), ReadOp("SELF_TEST_Y_ACCEL", 1),
          ReadOp("SELF_TEST_Z_ACCEL", 1), ReadOp("SELF_TEST_X_GYRO", 1),
          ReadOp("SELF_TEST_Y_GYRO", 1), ReadOp("SELF_TEST_Z_GYRO", 1) >>

\* selfTest on the readings inp: its locals and its result.  inp.a, inp.g,
\* inp.aST, inp.gST are the streams read per axis before and during
\* self-test, inp.trim the six self-test codes
SelfTestBody(inp) ==
    LET aAvg   == [i \in 1..3 |-> AverageOf(inp.a[i])]
        gAvg   == [i \in 1..3 |-> AverageOf(inp.g[i])]
        aSTAvg == [i \in 1..3 |-> AverageOf(inp.aST[i])]
        gSTAvg == [i \in 1..3 |-> AverageOf(inp.gST[i])]
        factoryTrim == [k \in 1..6 |-> FactoryTrimOf(inp.trim[k])]
        tolerances == [k \in 1..6 |->
            IF k <= 3 THEN ToleranceOf(aSTAvg[k] - aAvg[k], factoryTrim[k])
            ELSE ToleranceOf(gSTAvg[k - 3] - gAvg[k - 3], factoryTrim[k])]
        \* the accumulators before the division, in the order a, g, aST, gST
        sums == [i \in 1..3 |-> Accumulate(inp.a[i], 1, NSamples)]
                \o [i \in 1..3 |-> Accumulate(inp.g[i], 1, NSamples)]
                \o [i \in 1..3 |-> Accumulate(inp.aST[i], 1, NSamples)]
                \o [i \in 1..3 |-> Accumulate(inp.gST[i], 1, NSamples)]
    IN  [ aAvg |-> aAvg, gAvg |-> gAvg, aSTAvg |-> aSTAvg, gSTAvg |-> gSTAvg,
          selfTest |-> inp.trim, factoryTrim |-> factoryTrim,
          tolerances |-> tolerances, ret |-> SelfTestCheck(tolerances),
          sums |-> sums, inp |-> inp ]

-----------------------------------------------------------------------------
(* reset, initMPU6500, runTests *)

IsWrite(op) == op[1] = "w"

\* the registers after the operations ops, r being the registers before
Effect(r, ops) == ApplyOps(r, SelectSeq(ops, IsWrite), 1)

ResetOps(pt) ==
    (IF ~pt THEN << WriteOp("USER_CTRL", 0) >> ELSE << >>)
    \o << WriteOp("PWR_MGMT_1", 128) >>
    \o (IF ~pt THEN << WriteOp("USER_CTRL", I2C_MST_EN) >> ELSE << >>)
    \o << DelayOp(100) >>

\* initMPU6500(ascale, gscale, sampleRateDivisor, passthru) on registers r
InitMPU6500Ops(r, ascale, gscale, srd, pt) ==
    LET o1 == << WriteOp("PWR_MGMT_1", 128), DelayOp(100),
                 WriteOp("PWR_MGMT_1", 1), DelayOp(200) >>
              \o (IF pt THEN << WriteOp("CONFIG", 3) >> ELSE << >>)
              \o << WriteOp("SMPLRT_DIV", srd), ReadOp("GYRO_CONFIG", 1) >>
        r1 == Effect(r, o1)
        cg == BitOr8(BitAnd8(BitAnd8(r1["GYRO_CONFIG"], 253), 231), gscale * 8)
        ca == BitOr8(BitAnd8(r1["ACCEL_CONFIG"], 231), ascale * 8)
        c2 == BitOr8(BitAnd8(r1["ACCEL_CONFIG2"], 240), 3)
    IN  o1
        \o << WriteOp("GYRO_CONFIG", cg), ReadOp("ACCEL_CONFIG", 1),
              WriteOp("ACCEL_CONFIG", ca), ReadOp("ACCEL_CONFIG2", 1),
              WriteOp("ACCEL_CONFIG2", c2) >>
        \o (IF pt THEN << WriteOp("INT_PIN_CFG", 18) >>
                  ELSE << WriteOp("USER_CTRL", I2C_MST_EN) >>)
        \o << WriteOp("INT_ENABLE", 1), DelayOp(100) >>

\* getId(): a read of the WHO_AM_I register
GetIdOps == << ReadOp("WHO_AM_I", 1) >>

\* calibrate(): the accel/gyro bias calibration; it writes none of RegNames
CalibrateOps == << >>

GetAK8963CIDOps == << ReadOp("AK8963_WHO_AM_I", 1) >>

-----------------------------------------------------------------------------
(* What the device answers: the inputs of the operations *)

ConstStream(v) == [v |-> v, w |-> v, n |-> 0]

\* one axis of a self-test run: the readings before and during self-test,
\* and the axis's self-test code
AxisNominal  == [base |-> ConstStream(0), stm |-> ConstStream(2620), trim |-> 1]
AxisHigh     == [base |-> ConstStream(-1000), stm |-> ConstStream(1987), trim |-> 1]
AxisBelow    == [base |-> [v |-> -100, w |-> -101, n |-> 150],
                 stm |-> ConstStream(2886), trim |-> 1]
AxisBoundary == [base |-> ConstStream(-3000), stm |-> ConstStream(3754), trim |-> 83]
AxisNegative == [base |-> ConstStream(32767), stm |-> ConstStream(-32768), trim |-> 101]
AxisWeak     == [base |-> ConstStream(5), stm |-> ConstStream(5), trim |-> 0]
AxisCases == {AxisNominal, AxisHigh, AxisBelow, AxisBoundary, AxisNegative, AxisWeak}

\* the readings of a run from its six axes (accel x, y, z, gyro x, y, z)
SelfTestInputOf(ax) ==
    [ a    |-> [i \in 1..3 |-> ax[i].base],
      g    |-> [i \in 1..3 |-> ax[i + 3].base],
      aST  |-> [i \in 1..3 |-> ax[i].stm],
      gST  |-> [i \in 1..3 |-> ax[i + 3].stm],
      trim |-> [k \in 1..6 |-> ax[k].trim] ]

\* axis k is c, every other axis is d
OneAxis(k, c, d) == SelfTestInputOf([j \in 1..6 |-> IF j = k THEN c ELSE d])

SelfTestInputs ==
    {OneAxis(k, c, AxisNominal) : k \in 1..6, c \in AxisCases}
    \cup {OneAxis(k, c, AxisNegative) : k \in 1..6, c \in AxisCases}

\* what selfTest computes from each input, tabulated (@@ makes TLC compute the table once)
SelfTestTable == [inp \in SelfTestInputs |-> SelfTestBody(inp)] @@ [x \in {} |-> x]

WhoAmIValues == {113, 115}
AK8963IdValues == {72, 0}
AsaValues == { << 128, 128, 128 >>, << 176, 178, 165 >> }

RunInputOf(id, stInp, magId, asa) ==
    [id |-> id, st |-> stInp, magId |-> magId, asa |-> asa]

\* what the device answers during runTests: every combination of a right or
\* wrong identity, a passing or failing self-test and a right or wrong
\* magnetometer identity
RunInputs ==
    { RunInputOf(id, stInp, magId, << 128, 128, 128 >>) :
        id \in WhoAmIValues,
        stInp \in { OneAxis(1, AxisNominal, AxisNominal), OneAxis(2, AxisHigh, AxisNominal) },
        magId \in AK8963IdValues }
    \cup { RunInputOf(113, OneAxis(5, AxisBoundary, AxisNegative), 72, << 128, 128, 128 >>),
           RunInputOf(113, OneAxis(1, AxisNegative, AxisNegative), 72, << 176, 178, 165 >>) }

\* the seven bytes of a magnetometer reading: x, y, z low byte first, then ST2
MagRawOf(v, st2) ==
    << BytesOf(v[1])[2], BytesOf(v[1])[1], BytesOf(v[2])[2], BytesOf(v[2])[1],
       BytesOf(v[3])[2], BytesOf(v[3])[1], st2 >>

MagRawValues ==
    { MagRawOf(<< 100, -200, 300 >>, 16), MagRawOf(<< -32768, 32767, -1 >>, 0),
      MagRawOf(<< 258, 1, -2 >>, 16), MagRawOf(<< 0, 0, 0 >>, 0),
      MagRawOf(<< 32767, 32767, 32767 >>, 24), MagRawOf(<< 258, 1, -2 >>, 8) }

\* the arguments getMres is called with: the two scales, and a value that is
\* neither (the switch has no case for it)
MscaleArgs == Mscales \cup {2}

\* the constructor's arguments
CtorArgs == [ascale : {1}, gscale : {2}, mscale : Mscales, mmode : Mmodes,
             sampleRateDivisor : {4}, passthru : BOOLEAN]

\* the checks of runTests gone wrong: the magnetometer compared with the
\* MPU9250's identity, and selfTest's result ignored
MagIdMismatchWrongId(id) == id # 113
SelfTestFailedIgnored(t) == FALSE

\* getId() != 0x71, !selfTest(), getAK8963CID() != 0x48
ImuIdMismatch(id) == id # 113
SelfTestFailed(t) == ~t.ret
MagIdMismatch(id) == id # 72

\* selfTest's writes
SelfTestWrites == SelectSeq(SelfTestOps, IsWrite)

\* runTests on a driver with fields f and registers r, the device answering
\* inp.id, inp.st (the self-test readings), inp.magId and inp.asa
RunTestsBody(r, f, inp) ==
    LET s1 == << "getId" >>
        l1 == GetIdOps
        \* reset(); selfTest()
        s3 == s1 \o << "reset", "selfTest" >>
        l3 == l1 \o ResetOps(f.passthru) \o SelfTestOps
        r2 == Effect(r, ResetOps(f.passthru))
        r3 == ApplyOps(r2, SelfTestWrites, 1)
        t  == SelfTestTable[inp.st]
        \* calibrate(); initMPU6500(...); getAK8963CID()
        o5 == InitMPU6500Ops(r3, f.aScale, f.gScale, f.sampleRateDivisor, f.passthru)
        s6 == s3 \o << "calibrate", "initMPU6500", "getAK8963CID" >>
        l6 == l3 \o CalibrateOps \o o5 \o GetAK8963CIDOps
        r6 == Effect(r3, o5)
        \* initAK8963(_mScale, _mMode, _magCalibration)
        o7 == InitAK8963Ops(f.mScale, f.mMode)
        s7 == s6 \o << "initAK8963" >>
    IN  IF ImuIdMismatch(inp.id)
        THEN [ ret |-> ERROR_IMU_ID, steps |-> s1, ops |-> l1, regs |-> r,
               st |-> [ret |-> FALSE], entry |-> r,
               magCalibration |-> f.magCalibration, mMode |-> f.mMode ]
        ELSE IF SelfTestFailed(t)
        THEN [ ret |-> ERROR_SELFTEST, steps |-> s3, ops |-> l3, regs |-> r3,
               st |-> t, entry |-> r2,
               magCalibration |-> f.magCalibration, mMode |-> f.mMode ]
        ELSE IF MagIdMismatch(inp.magId)
        THEN [ ret |-> ERROR_MAG_ID, steps |-> s6, ops |-> l6, regs |-> r6,
               st |-> t, entry |-> r2,
               magCalibration |-> f.magCalibration, mMode |-> f.mMode ]
        ELSE [ ret |-> ERROR_NONE, steps |-> s7, ops |-> l6 \o o7,
               regs |-> Effect(r6, o7), st |-> t, entry |-> r2,
               magCalibration |-> InitAK8963Calibration(inp.asa),
               mMode |-> f.mMode ]

-----------------------------------------------------------------------------
(* The driver: construction and its operations *)

\* float _magBias[3], _magScale[3]: no correction until a calibration
DefaultMagBias == << Rat(0, 1), Rat(0, 1), Rat(0, 1) >>
DefaultMagScale == << Rat(1, 1), Rat(1, 1), Rat(1, 1) >>
DefaultMagCalibration == << Rat(0, 1), Rat(0, 1), Rat(0, 1) >>

NoCall == [op |-> "none"]
NoSt == [ret |-> FALSE]
NoRd == [raw |-> << >>]
CalIdle == [pc |-> "idle"]

\* static bool gotNewData = false; loop() about to be entered
AppStart == [gotNewData |-> FALSE, pc |-> "poll", polled |-> FALSE,
             magCount |-> << 0, 0, 0 >>]

\* the device's registers after power-on
PowerOnRegs == [x \in RegNames |-> 0]

\* the driver's fields, as runTests reads them
Fields == [ passthru |-> passthru, aScale |-> aScale, gScale |-> gScale,
            sampleRateDivisor |-> sampleRateDivisor, mScale |-> mScale,
            mMode |-> mMode, magCalibration |-> magCalibration ]

\* MPU9250::MPU9250(ascale, gscale, mscale, mmode, sampleRateDivisor, passthru)
Constructed(c) ==
    /\ mRes = GetMresRet(c.mscale, Rat(0, 1))
    /\ mScale = c.mscale
    /\ mMode = c.mmode
    /\ sampleRateDivisor = c.sampleRateDivisor
    /\ passthru = c.passthru
    /\ aScale = c.ascale
    /\ gScale = c.gscale
    /\ magCalibration = DefaultMagCalibration
    /\ magBias = DefaultMagBias
    /\ magScale = DefaultMagScale
    /\ mresCalls = { << c.mscale, GetMresRet(c.mscale, Rat(0, 1)) >> }

Init ==
    /\ \E c \in CtorArgs : Constructed(c)
    /\ regs = PowerOnRegs
    /\ call = NoCall
    /\ steps = << >>
    /\ busLog = << >>
    /\ st = NoSt
    /\ destination = << 0, 0, 0 >>
    /\ rd = NoRd
    /\ cal = CalIdle
    /\ app = AppStart

GetMres(mscale) ==
    /\ cal.pc = "idle"
    /\ UNCHANGED app
    /\ mRes' = GetMresField(mscale, mRes)
    /\ mresCalls' = mresCalls \cup { << mscale, GetMresRet(mscale, mRes) >> }
    /\ call' = [op |-> "getMres", arg |-> mscale, ret |-> GetMresRet(mscale, mRes),
                before |-> mRes]
    /\ steps' = << >> /\ busLog' = << >> /\ st' = NoSt /\ rd' = NoRd
    /\ UNCHANGED << mScale, mMode, passthru, sampleRateDivisor, magCalibration,
                    magBias, magScale, aScale, gScale, regs, destination, cal >>

ReadMagData(raw) ==
    /\ cal.pc = "idle"
    /\ UNCHANGED app
    /\ destination' = ReadMagDataInto(destination, raw)
    /\ rd' = [raw |-> raw, before |-> destination]
    /\ call' = [op |-> "readMagData"]
    /\ busLog' = ReadMagDataOps
    /\ steps' = << >> /\ st' = NoSt
    /\ UNCHANGED << mRes, mScale, mMode, passthru, sampleRateDivisor,
                    magCalibration, magBias, magScale, aScale, gScale, regs,
                    mresCalls, cal >>

InitAK8963(mscale, Mmode, asa) ==
    /\ cal.pc = "idle"
    /\ UNCHANGED app
    /\ magCalibration' = InitAK8963Calibration(asa)
    /\ mMode' = Mmode
    /\ busLog' = InitAK8963Ops(mscale, Mmode)
    /\ regs' = Effect(regs, InitAK8963Ops(mscale, Mmode))
    /\ call' = [op |-> "initAK8963", arg |-> mscale]
    /\ steps' = << >> /\ st' = NoSt /\ rd' = NoRd
    /\ UNCHANGED << mRes, mScale, passthru, sampleRateDivisor, magBias, magScale,
                    aScale, gScale, destination, mresCalls, cal >>

SelfTest(inp) ==
    /\ cal.pc = "idle"
    /\ UNCHANGED app
    /\ st' = SelfTestTable[inp] @@ [entry |-> regs]
    /\ regs' = ApplyOps(regs, SelfTestWrites, 1)
    /\ busLog' = SelfTestOps
    /\ call' = [op |-> "selfTest", ret |-> SelfTestTable[inp].ret]
    /\ steps' = << >> /\ rd' = NoRd
    /\ UNCHANGED << mRes, mScale, mMode, passthru, sampleRateDivisor,
                    magCalibration, magBias, magScale, aScale, gScale,
                    destination, mresCalls, cal >>

RunTests(inp) ==
    /\ cal.pc = "idle"
    /\ UNCHANGED app
    /\ LET b == RunTestsBody(regs, Fields, inp)
       IN  /\ regs' = b.regs
           /\ busLog' = b.ops
           /\ steps' = b.steps
           /\ st' = b.st @@ [entry |-> b.entry]
           /\ magCalibration' = b.magCalibration
           /\ mMode' = b.mMode
           /\ call' = [op |-> "runTests", ret |-> b.ret, id |-> inp.id,
                       magId |-> inp.magId, entry |-> regs]
    /\ rd' = NoRd
    /\ UNCHANGED << mRes, mScale, passthru, sampleRateDivisor, magBias, magScale,
                    aScale, gScale, destination, mresCalls, cal >>

Next ==
    \/ \E mscale \in MscaleArgs : GetMres(mscale)
    \/ \E mscale \in Mscales, Mmode \in Mmodes, asa \in AsaValues :
          InitAK8963(mscale, Mmode, asa)
    \/ \E inp \in RunInputs : RunTests(inp)

Spec == Init /\ [][Next]_vars

-----------------------------------------------------------------------------
(* selfTest called on its own, from the configurations runTests and         *)
(* initMPU6500 leave the device in                                          *)

ConfiguredRegs(pt) == Effect(PowerOnRegs, InitMPU6500Ops(PowerOnRegs, 1, 2, 4, pt))

InitSelfTest ==
    /\ \E c \in CtorArgs : c.mscale = MFS_16BITS /\ c.mmode = M_100Hz /\ Constructed(c)
    /\ regs \in {PowerOnRegs, ConfiguredRegs(passthru)}
    /\ call = NoCall
    /\ steps = << >>
    /\ busLog = << >>
    /\ st = NoSt
    /\ destination = << 0, 0, 0 >>
    /\ rd = NoRd
    /\ cal = CalIdle
    /\ app = AppStart

NextSelfTest == \E inp \in SelfTestInputs : SelfTest(inp)

SpecSelfTest == InitSelfTest /\ [][NextSelfTest]_vars

-----------------------------------------------------------------------------
(* readMagData called on its own *)

NextMag == \E raw \in MagRawValues : ReadMagData(raw)

SpecMag == Init /\ [][NextMag]_vars

-----------------------------------------------------------------------------
(* calibrateMagnetometer, one iteration of its loop at a time *)

\* the two sample counts exchanged
SampleCountExchanged(mode) ==
    LET n1 == IF mode = M_8Hz THEN 1500 ELSE 0
    IN  IF mode = M_100Hz THEN 128 ELSE n1

\* if(_mMode == M_8Hz) sample_count = 128; if(_mMode == M_100Hz) sample_count = 1500
SampleCountOf(mode) ==
    LET n1 == IF mode = M_8Hz THEN 128 ELSE 0
    IN  IF mode = M_100Hz THEN 1500 ELSE n1

\* if(_mMode == M_8Hz) delay(135); if(_mMode == M_100Hz) delay(12)
SampleDelaysOf(mode) ==
    (IF mode = M_8Hz THEN << 135 >> ELSE << >>)
    \o (IF mode = M_100Hz THEN << 12 >> ELSE << >>)

\* if(mag_temp[jj] > mag_max[jj]) mag_max[jj] = mag_temp[jj], for the three axes
UpdateMax(mx, temp) == [j \in 1..3 |-> IF temp[j] > mx[j] THEN temp[j] ELSE mx[j]]
UpdateMin(mn, temp) == [j \in 1..3 |-> IF temp[j] < mn[j] THEN temp[j] ELSE mn[j]]

\* the bias taken as half the difference of the extremes
MagBiasCountsDifference(mx, mn) == [j \in 1..3 |-> TruncDiv(mx[j] - mn[j], 2)]

\* mag_bias[j] = (mag_max[j] + mag_min[j])/2
MagBiasCounts(mx, mn) == [j \in 1..3 |-> TruncDiv(mx[j] + mn[j], 2)]

\* the half-swing rounded up
MagScaleCountsRoundedUp(mx, mn) == [j \in 1..3 |-> (mx[j] - mn[j] + 1) \div 2]

\* mag_scale[j] = (mag_max[j] - mag_min[j])/2
MagScaleCounts(mx, mn) == [j \in 1..3 |-> TruncDiv(mx[j] - mn[j], 2)]

\* _magBias[j] = (float) mag_bias[j]*_mRes*_magCalibration[j]
MagBiasOf(bias, res, calib) ==
    [j \in 1..3 |-> RatMul(RatMul(Rat(bias[j], 1), res), calib[j])]

\* what IEEE arithmetic gives a division by zero: infinities and not-a-number,
\* written as quotients with the denominator 0
PosInf == << 1, 0 >>
NegInf == << -1, 0 >>
NaN == << 0, 0 >>

\* the float quotient n/d of two integers' values: a rational, or what IEEE
\* arithmetic gives a division by zero
FloatQuot(n, d) ==
    IF d # 0 THEN Rat(n, d)
    ELSE IF n > 0 THEN PosInf ELSE IF n < 0 THEN NegInf ELSE NaN

\* the quotient the other way round: the axis's half-swing over the average
MagScaleInverted(scale) ==
    [j \in 1..3 |-> FloatQuot(3 * scale[j], scale[1] + scale[2] + scale[3])]

\* avg_rad = (mag_scale[0] + mag_scale[1] + mag_scale[2]) / 3.0;
\* _magScale[j] = avg_rad/((float)mag_scale[j])
MagScaleOf(scale) ==
    [j \in 1..3 |-> FloatQuot(scale[1] + scale[2] + scale[3], 3 * scale[j])]

\* the readings the magnetometer delivers during a sweep
CalRawValues ==
    { MagRawOf(<< 150, 100, 100 >>, 16), MagRawOf(<< -50, -100, -100 >>, 16),
      MagRawOf(<< 150, 300, 100 >>, 16), MagRawOf(<< 50, -100, 101 >>, 16),
      MagRawOf(<< 32767, -32768, 32767 >>, 24) }

CalStart ==
    /\ cal.pc = "idle"
    /\ UNCHANGED app
    /\ cal' = [ pc |-> "loop", ii |-> 0, sample_count |-> SampleCountOf(mMode),
                mag_max |-> << -32767, -32767, -32767 >>,
                mag_min |-> << 32767, 32767, 32767 >>,
                mag_temp |-> << 0, 0, 0 >>,
                mag_bias |-> << 0, 0, 0 >>, mag_scale |-> << 0, 0, 0 >>,
                nReads |-> 0, nDelays |-> 0, delays |-> {}, seen |-> {},
                reported |-> {} ]
    /\ call' = [op |-> "calibrateMagnetometer"]
    /\ UNCHANGED << mRes, mScale, mMode, passthru, sampleRateDivisor,
                    magCalibration, magBias, magScale, aScale, gScale, regs,
                    steps, busLog, st, destination, rd, mresCalls >>

\* one iteration: readMagData(mag_temp), the extremes, the delay
CalSample(raw) ==
    /\ cal.pc = "loop"
    /\ UNCHANGED app
    /\ cal.ii < cal.sample_count
    /\ LET temp == ReadMagDataInto(cal.mag_temp, raw)
       IN  cal' = [ cal EXCEPT !.mag_temp = temp,
                               !.mag_max = UpdateMax(cal.mag_max, temp),
                               !.mag_min = UpdateMin(cal.mag_min, temp),
                               !.nReads = @ + 1,
                               !.nDelays = @ + Len(SampleDelaysOf(mMode)),
                               !.delays = @ \cup { SampleDelaysOf(mMode)[i] :
                                                    i \in 1..Len(SampleDelaysOf(mMode)) },
                               !.seen = @ \cup {temp},
                               !.reported = IF St2Overflow(raw[7]) THEN @
                                            ELSE @ \cup {temp},
                               !.ii = @ + 1 ]
    /\ UNCHANGED << mRes, mScale, mMode, passthru, sampleRateDivisor,
                    magCalibration, magBias, magScale, aScale, gScale, regs, call,
                    steps, busLog, st, destination, rd, mresCalls >>

\* after the loop: the hard iron and soft iron corrections
CalFinish ==
    /\ cal.pc = "loop"
    /\ UNCHANGED app
    /\ ~(cal.ii < cal.sample_count)
    /\ LET bias  == MagBiasCounts(cal.mag_max, cal.mag_min)
           scale == MagScaleCounts(cal.mag_max, cal.mag_min)
       IN  /\ cal' = [cal EXCEPT !.pc = "done", !.mag_bias = bias, !.mag_scale = scale]
           /\ magBias' = MagBiasOf(bias, mRes, magCalibration)
           /\ magScale' = MagScaleOf(scale)
    /\ UNCHANGED << mRes, mScale, mMode, passthru, sampleRateDivisor,
                    magCalibration, aScale, gScale, regs, call, steps, busLog, st,
                    destination, rd, mresCalls >>

\* a driver that runTests has initialised, in each magnetometer mode
InitCal ==
    /\ \E c \in CtorArgs :
          /\ c.passthru = FALSE
          /\ (c.mscale = MFS_14BITS) <=> (c.mmode = M_8Hz)
          /\ mRes = GetMresRet(c.mscale, Rat(0, 1))
          /\ mScale = c.mscale
          /\ mMode = c.mmode
          /\ sampleRateDivisor = c.sampleRateDivisor
          /\ passthru = c.passthru
          /\ aScale = c.ascale
          /\ gScale = c.gscale
          /\ mresCalls = { << c.mscale, GetMresRet(c.mscale, Rat(0, 1)) >> }
          /\ regs = Effect(ConfiguredRegs(c.passthru), InitAK8963Ops(c.mscale, c.mmode))
    /\ magCalibration = InitAK8963Calibration(<< 176, 178, 165 >>)
    /\ magBias = DefaultMagBias
    /\ magScale = DefaultMagScale
    /\ call = NoCall
    /\ steps = << >>
    /\ busLog = << >>
    /\ st = NoSt
    /\ destination = << 0, 0, 0 >>
    /\ rd = NoRd
    /\ cal = CalIdle
    /\ app = AppStart

NextCal ==
    \/ CalStart
    \/ \E raw \in CalRawValues : CalSample(raw)
    \/ CalFinish

SpecCal == InitCal /\ [][NextCal]_vars

-----------------------------------------------------------------------------
(* readMagnetometer, and the driver's operations without a calibration sweep *)

RatSub(x, y) == Rat(x[1] * y[2] - y[1] * x[2], x[2] * y[2])

\* the float product x * s, s being a rational or what a division by zero left
FloatMul(x, s) ==
    IF s[2] = 0
    THEN IF s = NaN \/ x[1] = 0 THEN NaN
         ELSE IF (x[1] > 0) = (s = PosInf) THEN PosInf ELSE NegInf
    ELSE RatMul(x, s)

\* readMagnetometer scaling by the factory calibration a second time
ReadMagnetometerScaledByCalibration(magCount, res, calib, bias, scale) ==
    LET pre == [j \in 1..3 |->
                  RatSub(RatMul(RatMul(Rat(magCount[j], 1), res), calib[j]), bias[j])]
    IN  [pre |-> pre, out |-> [j \in 1..3 |-> FloatMul(pre[j], calib[j])]]

\* mx = (float)magCount[0]*_mRes*_magCalibration[0] - _magBias[0]; mx *= _magScale[0]
\* (and my, mz): pre is the value before the scaling, out the value returned
ReadMagnetometerOf(magCount, res, calib, bias, scale) ==
    LET pre == [j \in 1..3 |->
                  RatSub(RatMul(RatMul(Rat(magCount[j], 1), res), calib[j]), bias[j])]
    IN  [pre |-> pre, out |-> [j \in 1..3 |-> FloatMul(pre[j], scale[j])]]

\* what the local magCount of readMagnetometer may hold before readMagData
\* writes it: it is not initialised
MagCountGarbage == { << 0, 0, 0 >>, << -1, 7, 1234 >> }

\* the readings the magnetometer delivers to readMagnetometer
MagnetometerRawValues ==
    { MagRawOf(<< 100, -200, 300 >>, 16), MagRawOf(<< 258, 1, -2 >>, 0),
      MagRawOf(<< 500, 500, 500 >>, 24) }

ReadMagnetometer(raw, garbage) ==
    /\ cal.pc = "idle"
    /\ UNCHANGED app
    /\ LET magCount == ReadMagDataInto(garbage, raw)
           r == ReadMagnetometerOf(magCount, mRes, magCalibration, magBias, magScale)
       IN  call' = [op |-> "readMagnetometer", magCount |-> magCount,
                    pre |-> r.pre, out |-> r.out]
    /\ busLog' = ReadMagDataOps
    /\ steps' = << >> /\ st' = NoSt /\ rd' = NoRd
    /\ UNCHANGED << mRes, mScale, mMode, passthru, sampleRateDivisor,
                    magCalibration, magBias, magScale, aScale, gScale, regs,
                    destination, mresCalls, cal >>

\* the operations of the driver other than calibrateMagnetometer
NextUse ==
    \/ Next
    \/ \E raw \in MagnetometerRawValues, garbage \in MagCountGarbage :
          ReadMagnetometer(raw, garbage)

SpecUse == Init /\ [][NextUse]_vars

-----------------------------------------------------------------------------
(* The example application (MasterTest.ino): the interrupt handler and loop(), *)
(* one statement of loop() at a time; the handler may run between any two      *)

driverVars == << mRes, mScale, mMode, passthru, sampleRateDivisor, magCalibration,
                 magBias, magScale, aScale, gScale, regs, call, steps, busLog, st,
                 destination, rd, mresCalls, cal >>

\* if(true /*gotNewData*/): the condition loop() tests, flag being gotNewData
LoopCondition(flag) == TRUE

\* static void myinthandler() { gotNewData = true; }
MyIntHandler ==
    /\ app' = [app EXCEPT !.gotNewData = TRUE]
    /\ UNCHANGED driverVars

\* the test at the head of loop(); polled keeps what gotNewData held then
LoopPoll ==
    /\ app.pc = "poll"
    /\ app' = [app EXCEPT !.polled = app.gotNewData,
                          !.pc = IF LoopCondition(app.gotNewData) THEN "clear" ELSE "poll"]
    /\ UNCHANGED driverVars

\* gotNewData = false
LoopClear ==
    /\ app.pc = "clear"
    /\ app' = [app EXCEPT !.gotNewData = FALSE, !.pc = "check"]
    /\ UNCHANGED driverVars

\* if (imu.checkNewData()): ready is what the device answers
LoopCheck(ready) ==
    /\ app.pc = "check"
    /\ app' = [app EXCEPT !.pc = IF ready THEN "acquire" ELSE "poll"]
    /\ UNCHANGED driverVars

\* the acquisition: readAccelData, readGyroData, readMagData(magCount) and the
\* conversions; magCount is a local that is not initialised
LoopAcquire(raw, garbage) ==
    /\ app.pc = "acquire"
    /\ app' = [app EXCEPT !.magCount = ReadMagDataInto(garbage, raw), !.pc = "poll"]
    /\ UNCHANGED driverVars

NextApp ==
    \/ MyIntHandler
    \/ LoopPoll
    \/ LoopClear
    \/ \E ready \in BOOLEAN : LoopCheck(ready)
    \/ \E raw \in MagRawValues, garbage \in MagCountGarbage : LoopAcquire(raw, garbage)

SpecApp == Init /\ [][NextApp]_vars

-----------------------------------------------------------------------------
(* Properties *)

Ran(op) == call.op = op

IsPrefix(p, q) == Len(p) <= Len(q) /\ \A i \in 1..Len(p) : p[i] = q[i]

HasWrite(log) == \E i \in 1..Len(log) : log[i][1] = "w"

WritesTo(log, reg) == \E i \in 1..Len(log) : log[i][1] = "w" /\ log[i][2] = reg

C2_RunTestsStatus ==
    Ran("runTests") =>
        LET idOk  == call.id = 113
            stOk  == \A k \in DOMAIN st.tolerances : st.tolerances[k] < 14 * Unit
            magOk == call.magId = 72
        IN  /\ call.ret \in {ERROR_IMU_ID, ERROR_SELFTEST, ERROR_MAG_ID, ERROR_NONE}
            /\ (call.ret = ERROR_IMU_ID) <=> ~idOk
            /\ (call.ret = ERROR_SELFTEST) <=> (idOk /\ ~stOk)
            /\ (call.ret = ERROR_MAG_ID) <=> (idOk /\ stOk /\ ~magOk)
            /\ (call.ret = ERROR_NONE) <=> (idOk /\ stOk /\ magOk)

\* runTests got past the identity check and selfTest, and found the wrong magnetometer
C2_Witness ==
    /\ Ran("runTests") /\ call.ret = ERROR_MAG_ID
    /\ call.id = 113 /\ st.ret = TRUE /\ call.magId # 72

\* C3: the steps of runTests are a prefix of identity check, reset, selfTest,
\* calibrate, initMPU6500, magnetometer identity check, initAK8963, ending
\* right after the first failing check: an identity mismatch returns before
\* any register is written, a self-test failure before calibrate, and a
\* magnetometer identity mismatch before initAK8963.
C3_StepsArePrefix ==
    Ran("runTests") =>
        LET all == << "getId", "reset", "selfTest", "calibrate", "initMPU6500",
                      "getAK8963CID", "initAK8963" >>
            idOk  == call.id = 113
            stOk  == st.ret
            magOk == call.magId = 72
        IN  /\ IsPrefix(steps, all)
            /\ ~idOk => steps = SubSeq(all, 1, 1) /\ ~HasWrite(busLog) /\ regs = call.entry
            /\ (idOk /\ ~stOk) =>
                  /\ steps = SubSeq(all, 1, 3)
                  /\ busLog[Len(busLog)] = ReadOp("SELF_TEST_Z_GYRO", 1)
                  /\ ~WritesTo(busLog, "INT_ENABLE")
            /\ (idOk /\ stOk /\ ~magOk) =>
                  /\ steps = SubSeq(all, 1, 6)
                  /\ busLog[Len(busLog)] = ReadOp("AK8963_WHO_AM_I", 1)
                  /\ ~WritesTo(busLog, "AK8963_CNTL")
                  /\ regs["AK8963_CNTL"] = call.entry["AK8963_CNTL"]
            /\ (idOk /\ stOk /\ magOk) => steps = all /\ WritesTo(busLog, "AK8963_CNTL")

\* runTests stopped at a failed self-test
C3_Witness ==
    /\ Ran("runTests") /\ call.id = 113 /\ st.ret = FALSE
    /\ \E k \in 1..6 : st.tolerances[k] >= 14 * Unit
    /\ Len(steps) = 3

SelfTestConfigRegs == {"SMPLRT_DIV", "CONFIG", "GYRO_CONFIG", "ACCEL_CONFIG2", "ACCEL_CONFIG"}

\* C4 as stated: when selfTest returns, every configuration register it wrote
\* holds the value it held when selfTest was called.
C4_RegistersRestored ==
    Ran("selfTest") => \A x \in SelfTestConfigRegs : regs[x] = st.entry[x]

\* C4, amended: selfTest restores nothing. When it returns, ACCEL_CONFIG and
\* GYRO_CONFIG hold 0x00 and SMPLRT_DIV, CONFIG and ACCEL_CONFIG2 hold the test
\* configuration 0x00, 0x02, 0x02, whatever they held when selfTest was called;
\* the registers selfTest does not write hold what they held.
C4_RegistersLeftAsWritten ==
    Ran("selfTest") =>
        /\ regs["ACCEL_CONFIG"] = 0 /\ regs["GYRO_CONFIG"] = 0
        /\ regs["SMPLRT_DIV"] = 0 /\ regs["CONFIG"] = 2 /\ regs["ACCEL_CONFIG2"] = 2
        /\ \A x \in RegNames \ SelfTestConfigRegs : regs[x] = st.entry[x]

\* selfTest returned on a device that was configured otherwise when it was called
C4_Witness ==
    /\ Ran("selfTest")
    /\ st.entry["SMPLRT_DIV"] = 4 /\ st.entry["GYRO_CONFIG"] = 16
    /\ st.entry["ACCEL_CONFIG"] = 8 /\ st.entry["ACCEL_CONFIG2"] = 3
    /\ regs["SMPLRT_DIV"] = 0

SetMax(S) == CHOOSE x \in S : \A y \in S : y <= x
SetMin(S) == CHOOSE x \in S : \A y \in S : x <= y

\* C5: calibrateMagnetometer reads exactly 128 samples with a 135 ms delay
\* after each in 8 Hz mode, and exactly 1500 samples with a 12 ms delay after
\* each in 100 Hz mode.
C5_SampleCountByMode ==
    /\ cal.pc \in {"loop", "done"} =>
          /\ cal.nDelays = cal.nReads
          /\ mMode = 2 => cal.delays \subseteq {135} /\ cal.nReads <= 128
          /\ mMode = 6 => cal.delays \subseteq {12} /\ cal.nReads <= 1500
    /\ cal.pc = "done" =>
          /\ mMode = 2 => cal.nReads = 128 /\ cal.delays = {135}
          /\ mMode = 6 => cal.nReads = 1500 /\ cal.delays = {12}

\* a sweep in 100 Hz mode has ended
C5_Witness == cal.pc = "done" /\ mMode = 6 /\ cal.nReads = 1500 /\ cal.nDelays = 1500

\* C6: the hard-iron bias of an axis, in counts, is the midpoint (max + min)/2
\* of the greatest and the least value its buffer entry took over the samples:
\* 0 for the extremes 100 and -100, and 100 for 150 and 50.
C6_BiasIsMidpoint ==
    cal.pc = "done" =>
        \A j \in 1..3 :
            LET mx == SetMax({t[j] : t \in cal.seen})
                mn == SetMin({t[j] : t \in cal.seen})
                b  == cal.mag_bias[j]
            IN  /\ cal.mag_max[j] = mx /\ cal.mag_min[j] = mn
                /\ 2 * b \in {mx + mn - 1, mx + mn, mx + mn + 1}
                /\ Abs(2 * b) <= Abs(mx + mn)
                /\ (mx = 100 /\ mn = -100) => b = 0
                /\ (mx = 150 /\ mn = 50) => b = 100

\* a sweep ended with the extremes 150 and 50 on one axis and 100 and -100 on another
C6_Witness ==
    /\ cal.pc = "done"
    /\ cal.mag_max[1] = 150 /\ cal.mag_min[1] = 50 /\ cal.mag_bias[1] = 100
    /\ cal.mag_max[2] = 100 /\ cal.mag_min[2] = -100 /\ cal.mag_bias[2] = 0

\* C7: the soft-iron scale of an axis is the average of the three half-swings
\* (max - min)/2 divided by the axis's half-swing: (1, 1, 1) for the
\* half-swings (100, 100, 100), and (4/3, 2/3, 4/3) for (100, 200, 100).
C7_ScaleIsAverageOverHalfSwing ==
    cal.pc = "done" =>
        LET h == [j \in 1..3 |-> (cal.mag_max[j] - cal.mag_min[j]) \div 2]
        IN  (\A j \in 1..3 : h[j] > 0) =>
              /\ \A j \in 1..3 :
                    /\ magScale[j][2] > 0
                    /\ magScale[j][1] * 3 * h[j] = magScale[j][2] * (h[1] + h[2] + h[3])
              /\ h = << 100, 100, 100 >> => magScale = << << 1, 1 >>, << 1, 1 >>, << 1, 1 >> >>
              /\ h = << 100, 200, 100 >> => magScale = << << 4, 3 >>, << 2, 3 >>, << 4, 3 >> >>

\* a sweep ended with the half-swings (100, 200, 100)
C7_Witness ==
    /\ cal.pc = "done"
    /\ \A j \in 1..3 : cal.mag_max[j] - cal.mag_min[j] = 2 * << 100, 200, 100 >>[j]
    /\ magScale[2] = << 2, 3 >>

\* C8: readMagData drops an overflowed sample: with bit 0x08 of the status byte
\* set the three entries of the buffer keep their values, and with it clear
\* they take the little-endian signed 16-bit values just read.
C8_OverflowDropsSample ==
    Ran("readMagData") =>
        LET overflow == (rd.raw[7] \div 8) % 2 = 1
            le(lo, hi) == IF hi >= 128 THEN lo + 256 * hi - 65536 ELSE lo + 256 * hi
        IN  IF overflow
            THEN destination = rd.before
            ELSE destination = << le(rd.raw[1], rd.raw[2]), le(rd.raw[3], rd.raw[4]),
                                  le(rd.raw[5], rd.raw[6]) >>

\* an overflowed reading arrived when the buffer held an earlier sample
C8_Witness ==
    /\ Ran("readMagData")
    /\ (rd.raw[7] \div 8) % 2 = 1
    /\ rd.before = << 100, -200, 300 >>
    /\ destination = << 100, -200, 300 >>
    /\ rd.raw[1] + 256 * rd.raw[2] # 100

\* C9: getMres is a function of its argument alone: any two calls with the
\* same scale, in whatever driver states they were made, returned the same
\* value (10*4912/8190 for 14 bits, 10*4912/32760 for 16 bits, 0 otherwise).
C9_GetMresDeterminedByScale ==
    /\ \A c1 \in mresCalls, c2 \in mresCalls : c1[1] = c2[1] => c1[2] = c2[2]
    /\ \A c \in mresCalls :
          c[2] = (IF c[1] = 0 THEN << 4912, 819 >>
                  ELSE IF c[1] = 1 THEN << 1228, 819 >> ELSE << 0, 1 >>)

\* getMres was called with a scale when _mRes held the other scale's resolution
C9_Witness ==
    /\ Ran("getMres") /\ call.before # call.ret
    /\ \E c \in mresCalls : c[1] # call.arg
    /\ call.arg = mScale

\* C10 as stated: the factory trim of self-test code 1 is exactly 2620, and
\* that of code 101 is approximately 7121.9 (to the digit given).
C10_FactoryTrimAsStated ==
    Ran("selfTest") =>
        \A k \in 1..6 :
            /\ st.selfTest[k] = 1 => st.factoryTrim[k] = 2620 * Unit
            /\ st.selfTest[k] = 101 =>
                  /\ st.factoryTrim[k] * 10 >= 71218 * Unit
                  /\ st.factoryTrim[k] * 10 <= 71220 * Unit

\* C10, amended: the factory trim is 2620 * 1.01^(code - 1): exactly 2620 for
\* code 1, and for code 101 2620 * 1.01^100, which is approximately 7086.6
\* (not 7121.9).
C10_FactoryTrim ==
    Ran("selfTest") =>
        \A k \in 1..6 :
            /\ st.selfTest[k] = 1 => st.factoryTrim[k] = 2620 * Unit
            /\ st.selfTest[k] = 101 =>
                  /\ st.factoryTrim[k] * 10 >= 70865 * Unit
                  /\ st.factoryTrim[k] * 10 <= 70867 * Unit
            /\ st.selfTest[k] = 0 =>
                  /\ st.factoryTrim[k] * 101 >= 262000 * Unit - 101
                  /\ st.factoryTrim[k] * 101 <= 262000 * Unit + 101

\* selfTest ran with self-test codes 1 and 101
C10_Witness ==
    /\ Ran("selfTest")
    /\ \E k \in 1..6 : st.selfTest[k] = 1
    /\ \E k \in 1..6 : st.selfTest[k] = 101

\* C11: without a calibration sweep the soft-iron scale is unity: after any
\* sequence of getMres, initAK8963, runTests and readMagnetometer from
\* construction _magScale is (1, 1, 1), and what readMagnetometer returns is
\* the value it had before it multiplied by the scale.
C11_ScaleUnityUntilCalibrated ==
    /\ magScale = << << 1, 1 >>, << 1, 1 >>, << 1, 1 >> >>
    /\ Ran("readMagnetometer") => call.out = call.pre

\* readMagnetometer returned a nonzero field after runTests or initAK8963 had
\* loaded a factory calibration other than 1
C11_Witness ==
    /\ Ran("readMagnetometer")
    /\ \A j \in 1..3 : magCalibration[j] \notin { << 0, 1 >>, << 1, 1 >> }
    /\ \A j \in 1..3 : call.out[j][1] # 0

\* C12 as stated: a cycle of loop() performs an acquisition only if
\* gotNewData was set when the cycle polled, that is, set by the handler since
\* the loop last cleared it.
C12_AcquisitionOnlyOnFlag ==
    app.pc = "acquire" => app.polled

\* loop() is about to acquire in a cycle that began with gotNewData false
C12_Witness ==
    app.pc = "acquire" /\ ~app.polled /\ ~app.gotNewData

\* C13 as stated: selfTest returns true exactly when each of the six percent
\* deviations d satisfies -14 <= d <= 14, as the comment above selfTest has it.
C13_TwoSidedBand ==
    Ran("selfTest") =>
        (call.ret = TRUE <=>
            \A k \in 1..6 : -(14 * Unit) <= st.tolerances[k] /\ st.tolerances[k] <= 14 * Unit)

\* selfTest passed with a deviation below -14 percent
C13_Witness ==
    /\ Ran("selfTest") /\ call.ret = TRUE
    /\ \E k \in 1..6 : st.tolerances[k] < -(14 * Unit)

\* the positions of the log where op occurs
Positions(log, op) == {i \in 1..Len(log) : log[i] = op}

\* C14: the bus operations of selfTest come in a fixed order: the five
\* configuration writes; 200 accel and 200 gyro reads; the writes of 0xE0 to
\* ACCEL_CONFIG and GYRO_CONFIG and a 25 ms delay; 200 accel and 200 gyro
\* reads; the writes of 0x00 to both and a 25 ms delay; the six reads of the
\* self-test codes. On return bits [7:5] of both registers are clear.
C14_SelfTestBusOrder ==
    Ran("selfTest") =>
        LET accel == << "r", "ACCEL_XOUT_H", 6 >>
            gyro  == << "r", "GYRO_XOUT_H", 6 >>
            en    == CHOOSE i \in 1..Len(busLog) : busLog[i] = << "w", "ACCEL_CONFIG", 224 >>
            dis   == CHOOSE i \in 1..Len(busLog) : busLog[i] = << "w", "ACCEL_CONFIG", 0 >>
            between(S, lo, hi) == {i \in S : lo < i /\ i < hi}
        IN  /\ SubSeq(busLog, 1, 5) =
                  << << "w", "SMPLRT_DIV", 0 >>, << "w", "CONFIG", 2 >>,
                     << "w", "GYRO_CONFIG", 1 >>, << "w", "ACCEL_CONFIG2", 2 >>,
                     << "w", "ACCEL_CONFIG", 1 >> >>
            /\ Cardinality(Positions(busLog, << "w", "ACCEL_CONFIG", 224 >>)) = 1
            /\ Cardinality(Positions(busLog, << "w", "ACCEL_CONFIG", 0 >>)) = 1
            /\ en = 5 + 400 + 1 /\ dis = en + 3 + 400
            /\ \A i \in 6..(en - 1) : busLog[i] \in {accel, gyro}
            /\ Cardinality(between(Positions(busLog, accel), 5, en)) = 200
            /\ Cardinality(between(Positions(busLog, gyro), 5, en)) = 200
            /\ busLog[en + 1] = << "w", "GYRO_CONFIG", 224 >>
            /\ busLog[en + 2] = << "delay", "", 25 >>
            /\ \A i \in (en + 3)..(dis - 1) : busLog[i] \in {accel, gyro}
            /\ Cardinality(between(Positions(busLog, accel), en + 2, dis)) = 200
            /\ Cardinality(between(Positions(busLog, gyro), en + 2, dis)) = 200
            /\ busLog[dis + 1] = << "w", "GYRO_CONFIG", 0 >>
            /\ busLog[dis + 2] = << "delay", "", 25 >>
            /\ SubSeq(busLog, dis + 3, Len(busLog)) =
                  << << "r", "SELF_TEST_X_ACCEL", 1 >>, << "r", "SELF_TEST_Y_ACCEL", 1 >>,
                     << "r", "SELF_TEST_Z_ACCEL", 1 >>, << "r", "SELF_TEST_X_GYRO", 1 >>,
                     << "r", "SELF_TEST_Y_GYRO", 1 >>, << "r", "SELF_TEST_Z_GYRO", 1 >> >>
            /\ regs["ACCEL_CONFIG"] \div 32 = 0 /\ regs["GYRO_CONFIG"] \div 32 = 0

\* selfTest returned, its log of 817 operations ending with the read of the
\* last self-test code
C14_Witness ==
    /\ Ran("selfTest")
    /\ Len(busLog) = 817
    /\ busLog[Len(busLog)] = << "r", "SELF_TEST_Z_GYRO", 1 >>
    /\ regs["GYRO_CONFIG"] = 0 /\ st.entry["GYRO_CONFIG"] = 16

\* C15: each mean of selfTest is the sum of the axis's 200 samples divided by
\* 200 once, truncated toward zero; the sum lies within the range of the 32-bit
\* accumulator, for the least and the greatest samples too.
C15_MeanIsTruncatedSum ==
    Ran("selfTest") =>
        LET streams == st.inp.a \o st.inp.g \o st.inp.aST \o st.inp.gST
            means   == st.aAvg \o st.gAvg \o st.aSTAvg \o st.gSTAvg
        IN  \A i \in 1..12 :
                LET x   == streams[i]
                    sum == x.n * x.w + (200 - x.n) * x.v
                IN  /\ st.sums[i] = sum
                    /\ -2147483647 - 1 <= 200 * (-32768) /\ 200 * (-32768) <= sum
                    /\ sum <= 200 * 32767 /\ 200 * 32767 <= 2147483647
                    /\ Abs(sum - 200 * means[i]) < 200
                    /\ Abs(200 * means[i]) <= Abs(sum)
                    /\ (sum >= 0) => means[i] >= 0
                    /\ (sum <= 0) => means[i] <= 0

\* selfTest averaged the greatest and the least samples, and a stream whose
\* sum is negative and no multiple of 200
C15_Witness ==
    /\ Ran("selfTest")
    /\ \E i \in 1..12 : st.sums[i] = 200 * 32767
    /\ \E i \in 1..12 : st.sums[i] = 200 * (-32768)
    /\ \E i \in 1..12 : st.sums[i] < 0 /\ st.sums[i] % 200 # 0

\* C16 as stated: when every axis's recorded maximum is greater than its
\* recorded minimum, none of the three divisions by a half-swing is a division
\* by zero.
C16_NoDivisionByZeroIfSwing ==
    (cal.pc = "done" /\ \A j \in 1..3 : cal.mag_max[j] > cal.mag_min[j]) =>
        \A j \in 1..3 : cal.mag_scale[j] # 0 /\ magScale[j][2] # 0

\* C16, amended: the half-swing is (max - min)/2 in integers, so a division is
\* by zero exactly when the axis's maximum exceeds its minimum by less than 2;
\* nothing guards it, and _magScale then holds an infinity or not-a-number.
C16_DivisionByZeroIffSwingBelowTwo ==
    cal.pc = "done" =>
        \A j \in 1..3 :
            /\ cal.mag_max[j] >= cal.mag_min[j]
            /\ (cal.mag_max[j] - cal.mag_min[j] >= 2) =>
                  (cal.mag_scale[j] # 0 /\ magScale[j][2] # 0)
            /\ (cal.mag_max[j] - cal.mag_min[j] < 2) =>
                  (cal.mag_scale[j] = 0 /\ magScale[j] \in { << 1, 0 >>, << 0, 0 >> })

\* a sweep ended with every maximum above its minimum, and one of them by 1
C16_Witness ==
    /\ cal.pc = "done"
    /\ \A j \in 1..3 : cal.mag_max[j] > cal.mag_min[j]
    /\ cal.mag_max[3] - cal.mag_min[3] = 1
    /\ magScale[3] = << 1, 0 >>

\* the magnetometer scale configured last: bit 4 of AK8963 CNTL once initAK8963
\* has written it (CNTL then holds a nonzero mode), the constructor's scale before
ConfiguredMscale ==
    IF regs["AK8963_CNTL"] = 0 THEN mScale ELSE (regs["AK8963_CNTL"] \div 16) % 2

\* C17 as stated: in every state reached through the constructor, getMres,
\* initAK8963 and runTests, _mRes is the resolution of the magnetometer scale
\* configured last (10*4912/8190 for 14 bits, 10*4912/32760 for 16 bits).
C17_MResMatchesConfiguredScale ==
    mRes = (IF ConfiguredMscale = 0 THEN << 4912, 819 >> ELSE << 1228, 819 >>)

\* getMres was called with the scale the device is not configured for, and
\* _mRes now holds that scale's resolution
C17_Witness ==
    /\ Ran("getMres") /\ call.arg \in {0, 1}
    /\ call.arg # ConfiguredMscale
    /\ mRes = call.ret /\ mRes # call.before

\* C18 as stated: at the end of a sweep each axis's recorded maximum and
\* minimum are the maximum and minimum of the values reported in the samples
\* without overflow; an overflowed sample adds no value, the first included.
C18_ExtremesOfReportedSamples ==
    (cal.pc = "done" /\ cal.reported # {}) =>
        \A j \in 1..3 :
            /\ cal.mag_max[j] = SetMax({t[j] : t \in cal.reported})
            /\ cal.mag_min[j] = SetMin({t[j] : t \in cal.reported})

\* a sweep that began with an overflowed sample ended with the minimum 0 on an
\* axis where every reported value was positive
C18_Witness ==
    /\ cal.pc = "done" /\ cal.reported # {}
    /\ << 0, 0, 0 >> \in cal.seen
    /\ \A t \in cal.reported : t[1] > 0
    /\ cal.mag_min[1] = 0

====
